---- MODULE Spec2Model ----
(***************************************************************************)
(* The Record Store of the calorie tracker (src/data_manager.py) and the   *)
(* handlers that call it.  The persisted spreadsheet is a sequence of rows *)
(* keyed by the text of the Date column.  A cell is <<>> (NaN, a blank     *)
(* spreadsheet cell) or <<v>> (the number v).  A date text is a sequence   *)
(* of one-character strings, so that text comparison, parsing and          *)
(* formatting are computed the way the code computes them.                 *)
(***************************************************************************)
EXTENDS Integers, Sequences, FiniteSets, TLC

VARIABLES file, today, ops, ret, before, start, supplied, upserted

vars == <<file, today, ops, ret, before, start, supplied, upserted>>

\* ------------------------------------------------------------------ bounds
\* Number of upsert/delete calls explored in one behaviour.
MaxOps == 2
\* Number of midnights that pass during one behaviour.
MaxDayAdvance == 1

\* --------------------------------------------------------------- text model
Digits == <<"0", "1", "2", "3", "4", "5", "6", "7", "8", "9">>

IsDigit(c) == \E i \in 1..10 : Digits[i] = c

DigitVal(c) == (CHOOSE i \in 1..10 : Digits[i] = c) - 1

\* Code points of the characters that occur in the modelled date texts.
Ord(c) ==
    IF c = "-" THEN 45
    ELSE IF IsDigit(c) THEN 48 + DigitVal(c)
    ELSE IF c = "b" THEN 98
    ELSE IF c = "d" THEN 100
    ELSE 116

\* Python's str "<": lexicographic by code point, a proper prefix sorts first.
StrLess(s, t) ==
    \E i \in 1..Len(t) :
        /\ i <= Len(s) + 1
        /\ \A j \in 1..(i - 1) : s[j] = t[j]
        /\ (i = Len(s) + 1 \/ Ord(s[i]) < Ord(t[i]))

\* The date texts a caller passes to the store.  The GUI hands the content
\* of its free-text date field to update_day_data unchecked, so the store
\* sees zero-padded ISO texts, a text without zero padding, and a text
\* that is no date at all.
T0109 == <<"2", "0", "2", "4", "-", "0", "1", "-", "0", "9">>
T0107u == <<"2", "0", "2", "4", "-", "1", "-", "0", "7">>
T0107 == <<"2", "0", "2", "4", "-", "0", "1", "-", "0", "7">>
Ttbd == <<"t", "b", "d">>

DateTexts == {T0107, T0107u, T0109, Ttbd}

\* The bounds a caller passes to get_date_range_data.
T0105 == <<"2", "0", "2", "4", "-", "0", "1", "-", "0", "5">>

RangeStarts == {T0105, T0107u}

RangeEnds == {T0107, T0109}

\* The day counts of the windows the handlers ask for.
WindowDays == {1, 3}

\* The date texts of a session across the turn of the year: a Sunday in a
\* found spreadsheet, and for the calls the Monday after it and the
\* Wednesday of the same week, in the next year.
T1229 == <<"2", "0", "2", "4", "-", "1", "2", "-", "2", "9">>
T1230 == <<"2", "0", "2", "4", "-", "1", "2", "-", "3", "0">>
T0101 == <<"2", "0", "2", "5", "-", "0", "1", "-", "0", "1">>

ChartDates == {T1230, T0101}

\* The day and week counts the chart methods are called with.
ChartWindows == {1, 7}

ChartWeeks == {1, 2}

\* Every date text a session may pass to the store.
AllDateTexts == DateTexts \cup ChartDates \cup {T1229}

\* ------------------------------------------------------------ calendar model
IsLeap(y) == (y % 4 = 0) /\ ((y % 100 # 0) \/ (y % 400 = 0))

DaysInMonth(y, m) ==
    IF m = 2 THEN (IF IsLeap(y) THEN 29 ELSE 28)
    ELSE IF m \in {4, 6, 9, 11} THEN 30 ELSE 31

DaysBeforeYear(y) ==
    (y - 1) * 365 + ((y - 1) \div 4) - ((y - 1) \div 100) + ((y - 1) \div 400)

RECURSIVE DaysBeforeMonth(_, _)
DaysBeforeMonth(y, m) ==
    IF m = 1 THEN 0 ELSE DaysBeforeMonth(y, m - 1) + DaysInMonth(y, m - 1)

\* datetime.date(y, m, d).toordinal()
ToOrdinal(y, m, d) == DaysBeforeYear(y) + DaysBeforeMonth(y, m) + d

RECURSIVE NumVal(_)
NumVal(s) ==
    IF s = <<>> THEN 0
    ELSE 10 * NumVal(SubSeq(s, 1, Len(s) - 1)) + DigitVal(s[Len(s)])

AllDigits(s) == \A i \in 1..Len(s) : IsDigit(s[i])

\* pd.to_datetime on one text: <<n>>, n the proleptic ordinal of the day the
\* text denotes, or <<>> when the parser raises.  Covers the year-month-day
\* forms with "-" separators, one or two digits for month and day.
parse_datetime(s) ==
    LET P == {i \in 1..Len(s) : s[i] = "-"}
    IN  IF Cardinality(P) # 2 THEN <<>>
        ELSE LET p1 == CHOOSE i \in P : \A j \in P : i <= j
                 p2 == CHOOSE i \in P : \A j \in P : j <= i
                 ys == SubSeq(s, 1, p1 - 1)
                 ms == SubSeq(s, p1 + 1, p2 - 1)
                 ds == SubSeq(s, p2 + 1, Len(s))
             IN  IF /\ Len(ys) = 4 /\ Len(ms) \in {1, 2} /\ Len(ds) \in {1, 2}
                    /\ AllDigits(ys) /\ AllDigits(ms) /\ AllDigits(ds)
                    /\ NumVal(ms) \in 1..12
                    /\ NumVal(ds) \in 1..DaysInMonth(NumVal(ys), NumVal(ms))
                 THEN <<ToOrdinal(NumVal(ys), NumVal(ms), NumVal(ds))>>
                 ELSE <<>>

Pad(n, width) == [i \in 1..width |-> Digits[((n \div (10 ^ (width - i))) % 10) + 1]]

\* date.fromordinal(n).strftime('%Y-%m-%d')
format_date(n) ==
    LET y == CHOOSE yy \in 2023..2025 :
                 DaysBeforeYear(yy) < n /\ n <= DaysBeforeYear(yy + 1)
        r == n - DaysBeforeYear(y)
        m == CHOOSE mm \in 1..12 :
                 DaysBeforeMonth(y, mm) < r
                 /\ r <= DaysBeforeMonth(y, mm) + DaysInMonth(y, mm)
        d == r - DaysBeforeMonth(y, m)
    IN  Pad(y, 4) \o <<"-">> \o Pad(m, 2) \o <<"-">> \o Pad(d, 2)

\* The first day the clock shows, and the days a window can start or end on.
Today0 == ToOrdinal(2024, 1, 8)

LongestWindow == CHOOSE n \in WindowDays : \A k \in WindowDays : k <= n

\* The first day of the session across the turn of the year.
ChartToday0 == ToOrdinal(2025, 1, 1)

LongestChartWindow == 7 * (CHOOSE n \in ChartWeeks : \A k \in ChartWeeks : k <= n)

Days ==
    (Today0 - LongestWindow)..(Today0 + MaxDayAdvance)
        \cup (ChartToday0 - LongestChartWindow)..(ChartToday0 + MaxDayAdvance)

\* The conversions, tabulated once over the texts and days that occur.
Formatted == [n \in Days |-> format_date(n)]

strftime(n) == Formatted[n]

Texts == AllDateTexts \cup RangeStarts \cup RangeEnds \cup {Formatted[n] : n \in Days}

Parsed == [s \in Texts |-> parse_datetime(s)]

to_datetime(s) == Parsed[s]

Earlier == [s \in Texts, t \in Texts |-> StrLess(s, t)]

\* ------------------------------------------------------------------- cells
NaN == <<>>

isna(c) == c = NaN

\* `x if not pd.isna(x) else 0`
current(c) == IF isna(c) THEN 0 ELSE c[1]

NumericColumns == {"Calories", "Protein", "Carbs", "Fat", "Weight", "Calorie_Goal"}

\* The update field that writes each column.
FieldOf(col) ==
    CASE col = "Calories" -> "calories"
      [] col = "Protein" -> "protein"
      [] col = "Carbs" -> "carbs"
      [] col = "Fat" -> "fat"
      [] col = "Weight" -> "weight"
      [] col = "Calorie_Goal" -> "goal"

AccumulatorColumns == {"Calories", "Protein", "Carbs", "Fat"}

ReplaceColumns == {"Weight", "Calorie_Goal"}

\* The update mappings update_data builds from the entry fields: float()
\* accepts any number, a negative amount included.
Updates ==
    { ("calories" :> 500) @@ ("weight" :> 150),
      ("calories" :> 300) @@ ("weight" :> 145) @@ ("protein" :> 30) @@ ("carbs" :> 40)
          @@ ("fat" :> -10) @@ ("goal" :> 600) }

\* ------------------------------------------------------------ the data file
\* config.py: the ranges of the fields.
MIN_CALORIES == 0

MAX_CALORIES == 10000

MIN_MACROS == 0

MAX_MACROS == 1000

MIN_WEIGHT == 50

MAX_WEIGHT == 1000

MIN_GOAL == 500

MAX_GOAL == 5000

\* config.validate_numeric_input on a number.
validate_numeric_input(value, field_type) ==
    IF field_type = "calories" THEN MIN_CALORIES <= value /\ value <= MAX_CALORIES
    ELSE IF field_type \in {"protein", "carbs", "fat"}
         THEN MIN_MACROS <= value /\ value <= MAX_MACROS
    ELSE IF field_type = "weight" THEN MIN_WEIGHT <= value /\ value <= MAX_WEIGHT
    ELSE IF field_type = "goal" THEN MIN_GOAL <= value /\ value <= MAX_GOAL
    ELSE TRUE

\* The cells of the spreadsheet: a text, a number or a blank.
Blank == [t |-> "blank"]

TextCell(s) == [t |-> "text", v |-> s]

NumberCell(n) == [t |-> "number", v |-> n]

\* Faulty variant of WriteNumber: an undefined value is written as 0.
WriteNumberFilled(c) == IF isna(c) THEN NumberCell(0) ELSE NumberCell(c[1])

\* DataFrame.to_excel on a numeric cell: NaN is written as a blank.
WriteNumber(c) == IF isna(c) THEN Blank ELSE NumberCell(c[1])

\* read_excel on a numeric cell: a blank is read as NaN.
ReadNumber(x) == IF x.t = "number" THEN <<x.v>> ELSE NaN

\* read_excel followed by astype(str) on a Date cell.
ReadText(x) == IF x.t = "text" THEN x.v ELSE <<"n", "a", "n">>

\* save_data line 71: the frame as the sheet that to_excel writes.
WriteRow(r) ==
    [Date |-> TextCell(r.Date), Calories |-> WriteNumber(r.Calories),
     Protein |-> WriteNumber(r.Protein), Carbs |-> WriteNumber(r.Carbs),
     Fat |-> WriteNumber(r.Fat), Weight |-> WriteNumber(r.Weight),
     Calorie_Goal |-> WriteNumber(r.Calorie_Goal)]

RECURSIVE to_excel(_)
to_excel(df) ==
    IF df = <<>> THEN <<>> ELSE <<WriteRow(df[1])>> \o to_excel(Tail(df))

\* load_data lines 43-51: the sheet as the frame that read_excel returns.
ReadRow(x) ==
    [Date |-> ReadText(x.Date), Calories |-> ReadNumber(x.Calories),
     Protein |-> ReadNumber(x.Protein), Carbs |-> ReadNumber(x.Carbs),
     Fat |-> ReadNumber(x.Fat), Weight |-> ReadNumber(x.Weight),
     Calorie_Goal |-> ReadNumber(x.Calorie_Goal)]

RECURSIVE read_excel(_)
read_excel(sheet) ==
    IF sheet = <<>> THEN <<>> ELSE <<ReadRow(sheet[1])>> \o read_excel(Tail(sheet))

\* A spreadsheet found at construction is kept as it is; its blank cells
\* load as NaN.
ExistingRow ==
    [Date |-> TextCell(T0109), Calories |-> NumberCell(1500), Protein |-> Blank,
     Carbs |-> Blank, Fat |-> Blank, Weight |-> Blank, Calorie_Goal |-> Blank]

InitialFiles == {<<>>, <<ExistingRow>>}

\* What construction finds in the working directory: <<>> when there is no
\* data file, <<sheet>> when there is one.
FoundFiles == {<<>>} \cup {<<f>> : f \in InitialFiles}

\* ensure_data_file_exists: a file that exists is kept; a missing one is
\* created with the header only, and when that fails the error is logged and
\* raised again.
ensure_data_file_exists(found, createOK) ==
    IF found # <<>> THEN [file |-> found[1], raised |-> FALSE]
    ELSE IF createOK THEN [file |-> to_excel(<<>>), raised |-> FALSE]
    ELSE [file |-> <<>>, raised |-> TRUE]

\* load_data: the rows of the file, or the empty frame when reading fails.
load_data(f, readOK) == IF readOK THEN read_excel(f) ELSE <<>>

\* How a call of to_excel on the path of the data file ends: the sheet is
\* written; or the file cannot be opened for writing and stays as it is; or
\* the file is opened, which empties it, and the write fails after that.
WriteOutcomes == {"saved", "refused", "torn"}

\* What is left of a file whose rewrite failed half way: read_excel raises
\* on it, so it loads as the table without rows.
TornFile == <<>>

\* save_data: <<the file afterwards, return value>>.  to_excel rewrites the
\* file in place.
save_data(f, df, written) ==
    IF written = "saved" THEN <<to_excel(df), TRUE>>
    ELSE IF written = "refused" THEN <<f, FALSE>>
    ELSE <<TornFile, FALSE>>

RowsOf(df, date_str) == {i \in 1..Len(df) : df[i].Date = date_str}

\* Two texts that denote the same calendar day.
SameDay(s, t) == s = t \/ (to_datetime(s) # <<>> /\ to_datetime(s) = to_datetime(t))

\* Faulty variant of get_day_data: the lookup compares parsed dates, not texts.
get_day_data_by_day(df, date_str) ==
    LET day_data == {i \in 1..Len(df) : SameDay(df[i].Date, date_str)}
    IN  IF day_data = {} THEN <<>>
        ELSE <<df[CHOOSE i \in day_data : \A j \in day_data : i <= j]>>

\* get_day_data on a loaded frame: <<>> for None, <<row>> otherwise.
get_day_data(df, date_str) ==
    IF df = <<>> THEN <<>>
    ELSE LET day_data == RowsOf(df, date_str)
         IN  IF day_data = {} THEN <<>>
             ELSE <<df[CHOOSE i \in day_data : \A j \in day_data : i <= j]>>

\* The row update_day_data appends for a date it does not find.
new_row(date_str) ==
    [Date |-> date_str, Calories |-> <<0>>, Protein |-> <<0>>, Carbs |-> <<0>>,
     Fat |-> <<0>>, Weight |-> <<0>>, Calorie_Goal |-> <<0>>]

\* Faulty variant of Accumulate: the accumulator is overwritten.
AccumulateOverwrites(cell, value) == <<value>>

\* calories, protein, carbs, fat: add to the current value.
Accumulate(cell, value) == <<current(cell) + value>>

\* Faulty variant of Replace: the value is added to the stored one.
ReplaceAdds(cell, value) == <<current(cell) + value>>

\* weight, goal: set.
Replace(cell, value) == <<value>>

ApplyField(row, col, updates) ==
    IF FieldOf(col) \notin DOMAIN updates THEN row[col]
    ELSE IF col \in AccumulatorColumns
         THEN Accumulate(row[col], updates[FieldOf(col)])
         ELSE Replace(row[col], updates[FieldOf(col)])

ApplyUpdates(row, updates) ==
    [Date |-> row.Date,
     Calories |-> ApplyField(row, "Calories", updates),
     Protein |-> ApplyField(row, "Protein", updates),
     Carbs |-> ApplyField(row, "Carbs", updates),
     Fat |-> ApplyField(row, "Fat", updates),
     Weight |-> ApplyField(row, "Weight", updates),
     Calorie_Goal |-> ApplyField(row, "Calorie_Goal", updates)]

\* Faulty variant of update_day_data: the values are written to every row.
update_day_data_all_rows(df, date_str, updates) ==
    LET existing_row == RowsOf(df, date_str)
        df1 == IF existing_row = {} THEN Append(df, new_row(date_str)) ELSE df
    IN  [i \in 1..Len(df1) |-> ApplyUpdates(df1[i], updates)]

\* The frame update_day_data hands to save_data.
update_day_data(df, date_str, updates) ==
    LET existing_row == RowsOf(df, date_str)
        df1 == IF existing_row = {} THEN Append(df, new_row(date_str)) ELSE df
        row_index == IF existing_row = {} THEN Len(df1)
                     ELSE CHOOSE i \in existing_row : \A j \in existing_row : i <= j
    IN  [df1 EXCEPT ![row_index] = ApplyUpdates(@, updates)]

\* Faulty variant of delete_day_data: rows are dropped by parsed date, not by text.
delete_day_data_by_day(df, date_str) ==
    SelectSeq(df, LAMBDA r : ~SameDay(r.Date, date_str))

\* Faulty variant of delete_day_data: the mask is inverted.
delete_day_data_inverted(df, date_str) == SelectSeq(df, LAMBDA r : r.Date = date_str)

\* The frame delete_day_data hands to save_data.
delete_day_data(df, date_str) == SelectSeq(df, LAMBDA r : r.Date # date_str)

\* ----------------------------------------------------------------- queries
\* df[mask]: the rows whose mask entry is true, in the order of the frame.
RECURSIVE Filter(_, _)
Filter(df, mask) ==
    IF df = <<>> THEN <<>>
    ELSE LET n == Len(df)
             head == Filter(SubSeq(df, 1, n - 1), SubSeq(mask, 1, n - 1))
         IN  IF mask[n] THEN Append(head, df[n]) ELSE head

\* sort_values('Date'): ascending on the text of the Date column.
RECURSIVE sort_values(_)
sort_values(df) ==
    IF df = <<>> THEN <<>>
    ELSE LET least == CHOOSE i \in 1..Len(df) :
                          \A j \in 1..Len(df) : ~Earlier[df[j].Date, df[i].Date]
             rest == [k \in 1..(Len(df) - 1) |-> IF k < least THEN df[k] ELSE df[k + 1]]
         IN  <<df[least]>> \o sort_values(rest)

\* get_date_range_data on a loaded frame.  pd.to_datetime raises when one
\* text of the Date column, or a bound, is no date; the handler then returns
\* the empty frame.  The rows kept are those whose Date_dt lies between
\* start_dt and end_dt; they are returned sorted on the Date text.
get_date_range_data(df, start_date, end_date) ==
    IF df = <<>> THEN <<>>
    ELSE LET Date_dt == [i \in 1..Len(df) |-> to_datetime(df[i].Date)]
             start_dt == to_datetime(start_date)
             end_dt == to_datetime(end_date)
         IN  IF \/ \E i \in 1..Len(df) : Date_dt[i] = <<>>
                \/ start_dt = <<>>
                \/ end_dt = <<>>
             THEN <<>>
             ELSE LET mask == [i \in 1..Len(df) |->
                                  Date_dt[i][1] >= start_dt[1] /\ Date_dt[i][1] <= end_dt[1]]
                  IN  sort_values(Filter(df, mask))

\* get_recent_data: the window of `days` days that ends on `now`.
\* Faulty variant of get_recent_data: the window starts days before today.
get_recent_data_days_back(df, now, days) ==
    get_date_range_data(df, strftime(now - days), strftime(now))

get_recent_data(df, now, days) ==
    get_date_range_data(df, strftime(now - (days - 1)), strftime(now))

RECURSIVE SumCells(_, _)
SumCells(df, col) ==
    IF df = <<>> THEN 0
    ELSE current(df[1][col]) + SumCells(Tail(df), col)

dropna(df, cols) == SelectSeq(df, LAMBDA r : \A c \in cols : ~isna(r[c]))

\* Faulty variant of MeanOf: undefined cells count as 0 in the mean.
MeanOfFilled(df, col) ==
    IF df = <<>> THEN [num |-> 0, den |-> 1]
    ELSE [num |-> SumCells(df, col), den |-> Len(df)]

\* Series.mean() guarded by isna().all(): the mean of the defined cells as
\* the fraction num/den, 0 when no cell is defined.
MeanOf(df, col) ==
    LET defined == dropna(df, {col})
    IN  IF defined = <<>> THEN [num |-> 0, den |-> 1]
        ELSE [num |-> SumCells(defined, col), den |-> Len(defined)]

\* first/last row of the rows that have a weight, in the order of the frame.
weight_change(df) ==
    LET weight_data == dropna(df, {"Weight"})
    IN  IF Len(weight_data) >= 2
        THEN <<weight_data[Len(weight_data)].Weight[1] - weight_data[1].Weight[1]>>
        ELSE <<>>

goal_achievement_rate(df) ==
    LET goal_data == dropna(df, {"Calories", "Calorie_Goal"})
        goals_met == SelectSeq(goal_data, LAMBDA r : r.Calories[1] >= r.Calorie_Goal[1])
    IN  IF goal_data = <<>> THEN [num |-> 0, den |-> 1]
        ELSE [num |-> 100 * Len(goals_met), den |-> Len(goal_data)]

\* get_summary_stats on a loaded frame: <<>> for None, <<stats>> otherwise.
get_summary_stats(df0, now, days) ==
    LET df == get_recent_data(df0, now, days)
    IN  IF df = <<>> THEN <<>>
        ELSE << [avg_calories |-> MeanOf(df, "Calories"),
                 avg_protein |-> MeanOf(df, "Protein"),
                 avg_carbs |-> MeanOf(df, "Carbs"),
                 avg_fat |-> MeanOf(df, "Fat"),
                 avg_weight |-> MeanOf(df, "Weight"),
                 weight_change |-> weight_change(df),
                 goal_achievement_rate |-> goal_achievement_rate(df),
                 days_with_data |->
                     Len(SelectSeq(df, LAMBDA r : ~isna(r.Calories) /\ r.Calories[1] > 0))] >>

\* ------------------------------------------------------------------ charts
\* A chart is modelled by what it draws; <<>> stands for None ("no data").

\* date.weekday(): Monday is 0.
weekday(n) == (n - 1) % 7

\* Series.dt.year: the calendar year of the day.
year(n) ==
    CHOOSE y \in 2023..2025 : DaysBeforeYear(y) < n /\ n <= DaysBeforeYear(y + 1)

\* Series.dt.isocalendar().week: the number of the ISO week of the day, which
\* is counted in the year of the Thursday of that week.
isocalendar_week(n) ==
    LET thursday == n - weekday(n) + 3
    IN  ((thursday - ToOrdinal(year(thursday), 1, 1)) \div 7) + 1

\* Visualizer.create_weight_chart on the frame get_recent_data returned.
create_weight_chart(df) ==
    LET weight_data == dropna(df, {"Weight"})
    IN  IF df = <<>> \/ weight_data = <<>> THEN <<>>
        ELSE << [points |-> [i \in 1..Len(weight_data) |->
                                [date |-> to_datetime(weight_data[i].Date)[1],
                                 weight |-> weight_data[i].Weight[1]]],
                 trend |-> Len(weight_data) >= 3] >>

\* Faulty variant of bar_color: the edges of the range are outside it.
bar_color_edges_out(cal_value) ==
    IF cal_value <= 1200 THEN "red"
    ELSE IF cal_value >= 2500 THEN "orange"
    ELSE "green"

\* The colour of a calorie bar.
bar_color(cal_value) ==
    IF cal_value < 1200 THEN "red"
    ELSE IF cal_value > 2500 THEN "orange"
    ELSE "green"

\* Visualizer.create_calorie_chart on the frame get_recent_data returned.
create_calorie_chart(df) ==
    LET calorie_data == SelectSeq(df, LAMBDA r : ~isna(r.Calories) /\ r.Calories[1] > 0)
    IN  IF df = <<>> \/ calorie_data = <<>> THEN <<>>
        ELSE << [bars |-> [i \in 1..Len(calorie_data) |->
                              [date |-> to_datetime(calorie_data[i].Date)[1],
                               calories |-> calorie_data[i].Calories[1],
                               color |-> bar_color(calorie_data[i].Calories[1])]],
                 avg_calories |-> MeanOf(calorie_data, "Calories")] >>

\* A cell that holds a number above 0.
positive(cell) == ~isna(cell) /\ cell[1] > 0

\* Visualizer.create_macro_chart on the frame get_recent_data returned.
create_macro_chart(df) ==
    LET macro_data ==
            SelectSeq(df, LAMBDA r :
                /\ ~(isna(r.Protein) /\ isna(r.Carbs) /\ isna(r.Fat))
                /\ (positive(r.Protein) \/ positive(r.Carbs) \/ positive(r.Fat)))
    IN  IF df = <<>> \/ macro_data = <<>> THEN <<>>
        ELSE << [bars |-> [i \in 1..Len(macro_data) |->
                              [date |-> to_datetime(macro_data[i].Date)[1],
                               Protein |-> macro_data[i].Protein,
                               Carbs |-> macro_data[i].Carbs,
                               Fat |-> macro_data[i].Fat]]] >>

\* Faulty variant of goal_met: a day that exactly reaches its goal misses it.
goal_met_above(actual, goal) == actual > goal

\* The test that colours the bar of a day as goal met.
goal_met(actual, goal) == actual >= goal

\* Visualizer.create_goal_comparison_chart on the frame get_recent_data
\* returned.
create_goal_comparison_chart(df) ==
    LET goal_data ==
            SelectSeq(dropna(df, {"Calories", "Calorie_Goal"}),
                      LAMBDA r : r.Calories[1] > 0 /\ r.Calorie_Goal[1] > 0)
        met == SelectSeq(goal_data, LAMBDA r : goal_met(r.Calories[1], r.Calorie_Goal[1]))
    IN  IF df = <<>> \/ goal_data = <<>> THEN <<>>
        ELSE << [bars |-> [i \in 1..Len(goal_data) |->
                              [date |-> to_datetime(goal_data[i].Date)[1],
                               actual |-> goal_data[i].Calories[1],
                               goal |-> goal_data[i].Calorie_Goal[1],
                               color |-> IF goal_met(goal_data[i].Calories[1],
                                                     goal_data[i].Calorie_Goal[1])
                                         THEN "green" ELSE "red"]],
                 success_rate |-> [num |-> 100 * Len(met), den |-> Len(goal_data)]] >>

\* The mean groupby(...).agg('mean') gives a column of one group: NaN when
\* no row of the group has a value.
group_mean(rows, col) ==
    IF dropna(rows, {col}) = <<>> THEN NaN ELSE <<MeanOf(rows, col)>>

\* The columns Year and Week that create_weekly_summary_chart groups by.
week_key(n) == <<year(n), isocalendar_week(n)>>

\* Visualizer.create_weekly_summary_chart on the frame get_recent_data
\* returned: one record per group, with the days of the rows it aggregates.
create_weekly_summary_chart(df) ==
    LET keys == {week_key(to_datetime(df[i].Date)[1]) : i \in 1..Len(df)}
        group(k) == SelectSeq(df, LAMBDA r : week_key(to_datetime(r.Date)[1]) = k)
    IN  IF df = <<>> THEN <<>>
        ELSE << {[Year |-> g[1][1], Week |-> g[1][2],
                  days |-> {to_datetime(g[2][i].Date)[1] : i \in 1..Len(g[2])},
                  Calories |-> group_mean(g[2], "Calories"),
                  Weight |-> group_mean(g[2], "Weight"),
                  Protein |-> group_mean(g[2], "Protein"),
                  Carbs |-> group_mean(g[2], "Carbs"),
                  Fat |-> group_mean(g[2], "Fat")] : g \in {<<k, group(k)>> : k \in keys}} >>

\* Faulty variant of create_macro_pie_chart: the sizes are the means of the
\* columns, not their sums.
create_macro_pie_chart_means(df) ==
    LET total_protein == SumCells(df, "Protein") \div Len(df)
        total_carbs == SumCells(df, "Carbs") \div Len(df)
        total_fat == SumCells(df, "Fat") \div Len(df)
    IN  IF df = <<>> THEN <<>>
        ELSE IF total_protein + total_carbs + total_fat = 0 THEN <<>>
        ELSE IF total_protein < 0 \/ total_carbs < 0 \/ total_fat < 0 THEN <<>>
        ELSE << [Protein |-> total_protein, Carbs |-> total_carbs, Fat |-> total_fat] >>

\* Visualizer.create_macro_pie_chart on the frame get_recent_data returned:
\* ax.pie raises on a negative size, and the method returns None from its
\* except clause.
create_macro_pie_chart(df) ==
    LET total_protein == SumCells(df, "Protein")
        total_carbs == SumCells(df, "Carbs")
        total_fat == SumCells(df, "Fat")
    IN  IF df = <<>> THEN <<>>
        ELSE IF total_protein + total_carbs + total_fat = 0 THEN <<>>
        ELSE IF total_protein < 0 \/ total_carbs < 0 \/ total_fat < 0 THEN <<>>
        ELSE << [Protein |-> total_protein, Carbs |-> total_carbs, Fat |-> total_fat] >>

\* ------------------------------------------------------------------- state
NoCells == [c \in NumericColumns |-> NaN]

CellsOf(row) == [c \in NumericColumns |-> row[c]]

NoneSupplied == [c \in NumericColumns |-> <<>>]

\* DataManager.__init__ in a working directory holding found; clock is the
\* day the session starts on.
Construct(found, createOK, clock) ==
    LET made == ensure_data_file_exists(found, createOK)
        df == read_excel(made.file)
    IN  /\ file = made.file
        /\ start = [d \in AllDateTexts |->
                       IF RowsOf(df, d) = {} THEN NoCells
                       ELSE CellsOf(df[CHOOSE i \in RowsOf(df, d) : TRUE])]
        /\ today = clock
        /\ ops = 0
        /\ ret = [op |-> "init", raised |-> made.raised]
        /\ before = file
        /\ supplied = [d \in AllDateTexts |-> NoneSupplied]
        /\ upserted = {}

Init == \E found \in FoundFiles : Construct(found, TRUE, Today0)

\* Construction returned: there is a DataManager to call.
Constructed == ~(ret.op = "init" /\ ret.raised)

\* CalorieTrackerGUI.update_data -> DataManager.update_day_data
Upsert(date_str, updates, readOK, written) ==
    /\ Constructed
    /\ ops < MaxOps
    /\ LET df == load_data(file, readOK)
           saved == save_data(file, update_day_data(df, date_str, updates), written)
       IN  /\ file' = saved[1]
           /\ ret' = [op |-> "upsert", date |-> date_str, updates |-> updates,
                      readOK |-> readOK, writeOK |-> (written = "saved"), written |-> written,
                      value |-> saved[2]]
           /\ supplied' =
                  IF saved[2]
                  THEN [supplied EXCEPT ![date_str] =
                           [c \in NumericColumns |->
                               IF FieldOf(c) \in DOMAIN updates
                               THEN Append(@[c], updates[FieldOf(c)])
                               ELSE @[c]]]
                  ELSE supplied
           /\ upserted' = upserted \cup {date_str}
    /\ before' = file
    /\ ops' = ops + 1
    /\ UNCHANGED <<today, start>>

\* DataManager.delete_day_data
Delete(date_str, readOK, written) ==
    /\ Constructed
    /\ ops < MaxOps
    /\ LET df == load_data(file, readOK)
           saved == save_data(file, delete_day_data(df, date_str), written)
       IN  /\ file' = saved[1]
           /\ ret' = [op |-> "delete", date |-> date_str,
                      readOK |-> readOK, writeOK |-> (written = "saved"), written |-> written,
                      value |-> saved[2]]
           /\ start' = IF saved[2] THEN [start EXCEPT ![date_str] = NoCells] ELSE start
           /\ supplied' = IF saved[2] THEN [supplied EXCEPT ![date_str] = NoneSupplied]
                          ELSE supplied
    /\ before' = file
    /\ ops' = ops + 1
    /\ UNCHANGED <<today, upserted>>

\* CalorieTrackerGUI.refresh_current_day_info -> DataManager.get_day_data
GetDay(date_str, readOK) ==
    /\ Constructed
    /\ ret' = [op |-> "get_day", date |-> date_str, readOK |-> readOK,
               value |-> get_day_data(load_data(file, readOK), date_str)]
    /\ UNCHANGED <<file, today, ops, before, start, supplied, upserted>>

\* DataManager.get_date_range_data
GetRange(start_date, end_date, readOK) ==
    /\ Constructed
    /\ ret' = [op |-> "get_range", start_date |-> start_date, end_date |-> end_date,
               value |-> get_date_range_data(load_data(file, readOK), start_date, end_date)]
    /\ UNCHANGED <<file, today, ops, before, start, supplied, upserted>>

\* DataManager.get_recent_data
GetRecent(days, readOK) ==
    /\ Constructed
    /\ ret' = [op |-> "get_recent", days |-> days, now |-> today,
               value |-> get_recent_data(load_data(file, readOK), today, days)]
    /\ UNCHANGED <<file, today, ops, before, start, supplied, upserted>>

\* DataManager.get_summary_stats
Summary(days, readOK) ==
    /\ Constructed
    /\ ret' = [op |-> "summary", days |-> days, now |-> today, readOK |-> readOK,
               value |-> get_summary_stats(load_data(file, readOK), today, days)]
    /\ UNCHANGED <<file, today, ops, before, start, supplied, upserted>>

\* CalorieTrackerGUI.refresh_display -> DataManager.get_all_data
GetAll(readOK) ==
    /\ Constructed
    /\ ret' = [op |-> "get_all", readOK |-> readOK, value |-> load_data(file, readOK)]
    /\ UNCHANGED <<file, today, ops, before, start, supplied, upserted>>

\* DataManager.backup_data: the data file is copied to a new path, which is
\* returned; None (<<>>) when the copy fails.  No operation reads the copy.
Backup(copyOK) ==
    /\ Constructed
    /\ ret' = [op |-> "backup", copyOK |-> copyOK,
               value |-> IF copyOK THEN <<[content |-> file]>> ELSE <<>>]
    /\ UNCHANGED <<file, today, ops, before, start, supplied, upserted>>

\* A call of a chart method: the chart it returns is all it leaves behind.
Chart(op, n, chart) ==
    /\ Constructed
    /\ ret' = [op |-> op, days |-> n, now |-> today, value |-> chart]
    /\ UNCHANGED <<file, today, ops, before, start, supplied, upserted>>

\* CalorieTrackerGUI.update_charts -> Visualizer.create_weight_chart
WeightChart(days, readOK) ==
    \E df \in {get_recent_data(load_data(file, readOK), today, days)} :
        Chart("weight_chart", days, create_weight_chart(df))

\* CalorieTrackerGUI.update_charts -> Visualizer.create_calorie_chart
CalorieChart(days, readOK) ==
    \E df \in {get_recent_data(load_data(file, readOK), today, days)} :
        Chart("calorie_chart", days, create_calorie_chart(df))

\* CalorieTrackerGUI.update_charts -> Visualizer.create_macro_chart
MacroChart(days, readOK) ==
    \E df \in {get_recent_data(load_data(file, readOK), today, days)} :
        Chart("macro_chart", days, create_macro_chart(df))

\* CalorieTrackerGUI.update_charts -> Visualizer.create_goal_comparison_chart
GoalComparisonChart(days, readOK) ==
    \E df \in {get_recent_data(load_data(file, readOK), today, days)} :
        Chart("goal_comparison_chart", days, create_goal_comparison_chart(df))

\* Faulty variant of WeeklySummaryChart: the frame of the window, which the
\* method changes in place, is saved.
WeeklySummaryChartSaving(weeks, readOK) ==
    \E df \in {get_recent_data(load_data(file, readOK), today, weeks * 7)} :
        /\ Constructed
        /\ ret' = [op |-> "weekly_summary_chart", days |-> weeks * 7, now |-> today,
                   value |-> create_weekly_summary_chart(df)]
        /\ file' = save_data(file, df, "saved")[1]
        /\ UNCHANGED <<today, ops, before, start, supplied, upserted>>

\* Visualizer.create_weekly_summary_chart
WeeklySummaryChart(weeks, readOK) ==
    \E df \in {get_recent_data(load_data(file, readOK), today, weeks * 7)} :
        Chart("weekly_summary_chart", weeks * 7, create_weekly_summary_chart(df))

\* Visualizer.create_macro_pie_chart
MacroPieChart(days, readOK) ==
    \E df \in {get_recent_data(load_data(file, readOK), today, days)} :
        Chart("macro_pie_chart", days, create_macro_pie_chart(df))

\* The wall clock passes midnight: datetime.now().date() moves on one day.
Midnight ==
    /\ today + 1 \in Days
    /\ today' = today + 1
    /\ UNCHANGED <<file, ops, ret, before, start, supplied, upserted>>

\* The calls of one session on a backing file that can be read and written:
\* every call loads and saves successfully.
Next ==
    \/ \E d \in DateTexts, u \in Updates : Upsert(d, u, TRUE, "saved")
    \/ \E d \in DateTexts : Delete(d, TRUE, "saved")
    \/ \E d \in DateTexts : GetDay(d, TRUE)
    \/ \E a \in RangeStarts, b \in RangeEnds : GetRange(a, b, TRUE)
    \/ \E n \in WindowDays : GetRecent(n, TRUE)
    \/ \E n \in WindowDays : Summary(n, TRUE)
    \/ Midnight

Spec == Init /\ [][Next]_vars

\* The dates and updates of the calls made while reads and writes may fail.
FaultDates == {T0107, T0109}

FaultUpdates == {("calories" :> 500), ("weight" :> 145) @@ ("goal" :> 600)}

FaultWindows == {3}

\* Construction in a directory where the file may be impossible to create.
InitFaults == \E found \in FoundFiles, createOK \in BOOLEAN : Construct(found, createOK, Today0)

\* The calls of a session in which any read, write or copy of the backing
\* file may fail.
NextFaults ==
    \/ \E d \in FaultDates, u \in FaultUpdates, r \in BOOLEAN, w \in WriteOutcomes :
           Upsert(d, u, r, w)
    \/ \E d \in FaultDates, r \in BOOLEAN, w \in WriteOutcomes : Delete(d, r, w)
    \/ \E d \in FaultDates, r \in BOOLEAN : GetDay(d, r)
    \/ \E n \in FaultWindows, r \in BOOLEAN : Summary(n, r)
    \/ \E r \in BOOLEAN : GetAll(r)
    \/ \E c \in BOOLEAN : Backup(c)

SpecFaults == InitFaults /\ [][NextFaults]_vars

\* A spreadsheet found at the turn of the year: a day at the lower edge of
\* the normal calorie range that exactly met its goal, and a day at the upper
\* edge with no weight and no goal.
ChartRows ==
    << [Date |-> TextCell(T1229), Calories |-> NumberCell(1200), Protein |-> NumberCell(100),
        Carbs |-> Blank, Fat |-> Blank, Weight |-> NumberCell(150),
        Calorie_Goal |-> NumberCell(1200)],
       [Date |-> TextCell(T1230), Calories |-> NumberCell(2500), Protein |-> Blank,
        Carbs |-> Blank, Fat |-> Blank, Weight |-> Blank, Calorie_Goal |-> Blank] >>

ChartFoundFiles == {<<>>, <<ChartRows>>}

ChartUpdates ==
    { ("calories" :> 100) @@ ("protein" :> 30),
      ("weight" :> 148) @@ ("goal" :> 1300),
      ("fat" :> -30) }

InitCharts == \E found \in ChartFoundFiles : Construct(found, TRUE, ChartToday0)

\* The calls of one session that looks at the charts, on a backing file that
\* can be read and written.
NextCharts ==
    \/ \E d \in ChartDates, u \in ChartUpdates : Upsert(d, u, TRUE, "saved")
    \/ \E d \in ChartDates : Delete(d, TRUE, "saved")
    \/ \E n \in ChartWindows : WeightChart(n, TRUE)
    \/ \E n \in ChartWindows : CalorieChart(n, TRUE)
    \/ \E n \in ChartWindows : MacroChart(n, TRUE)
    \/ \E n \in ChartWindows : GoalComparisonChart(n, TRUE)
    \/ \E w \in ChartWeeks : WeeklySummaryChart(w, TRUE)
    \/ \E n \in ChartWindows : MacroPieChart(n, TRUE)
    \/ Midnight

SpecCharts == InitCharts /\ [][NextCharts]_vars

\* ------------------------------------------------------------------ claims
\* The persisted table as load_data reads it, now and before the last call.
Table == load_data(file, TRUE)

TableBefore == load_data(before, TRUE)

HasRow(f, d) == RowsOf(f, d) # {}

RowOf(f, d) == f[CHOOSE i \in RowsOf(f, d) : TRUE]

RECURSIVE SumSeq(_)
SumSeq(q) == IF q = <<>> THEN 0 ELSE q[1] + SumSeq(Tail(q))

\* The row of d was appended by an upsert (it is not a row found at start).
CreatedByUpsert(d) == HasRow(Table, d) /\ start[d] = NoCells

\* C1: after successful upserts on a date with no delete in between, each
\* accumulator column of its row holds the value it had before them (a
\* missing or undefined one counting as 0) plus the sum of the values the
\* upserts supplied for it.
C1_AccumulatorsSum ==
    \A d \in DateTexts : \A c \in AccumulatorColumns :
        supplied[d][c] # <<>> =>
            /\ HasRow(Table, d)
            /\ RowOf(Table, d)[c] = <<current(start[d][c]) + SumSeq(supplied[d][c])>>

C1_Witness ==
    \E d \in DateTexts :
        /\ supplied[d]["Calories"] = <<500, 300>>
        /\ RowOf(Table, d).Calories = <<800>>

\* C2: the weight and the calorie goal of a date hold the value of the most
\* recent upsert that supplied them, and an upsert that supplies only other
\* fields leaves them as they were.
C2_ReplaceLastWins ==
    /\ \A d \in DateTexts : \A c \in ReplaceColumns :
           supplied[d][c] # <<>> =>
               /\ HasRow(Table, d)
               /\ RowOf(Table, d)[c] = <<supplied[d][c][Len(supplied[d][c])]>>
    /\ \A c \in ReplaceColumns :
           (/\ ret.op = "upsert"
            /\ ret.value
            /\ FieldOf(c) \notin DOMAIN ret.updates
            /\ HasRow(TableBefore, ret.date))
           => RowOf(Table, ret.date)[c] = RowOf(TableBefore, ret.date)[c]

C2_Witness ==
    \E d \in DateTexts :
        /\ supplied[d]["Weight"] = <<150, 145>>
        /\ RowOf(Table, d).Weight = <<145>>

\* C3: the persisted table holds at most one row per calendar date.
C3_OneRowPerCalendarDate ==
    \A i, j \in 1..Len(Table) :
        i # j => ~SameDay(Table[i].Date, Table[j].Date)

\* C4: a record created by upsert whose updates never included the weight
\* (the goal) is reported by get_day_data with that column absent.
C4_UnsetReplaceFieldsAbsent ==
    \A c \in ReplaceColumns :
        (/\ ret.op = "get_day"
         /\ ret.value # <<>>
         /\ CreatedByUpsert(ret.date)
         /\ supplied[ret.date][c] = <<>>)
        => isna(ret.value[1][c])

\* C5: get_day_data returns None for a date that was never upserted and has
\* no row from the start, whatever other dates are stored.
C5_NeverUpsertedAbsent ==
    (/\ ret.op = "get_day"
     /\ ret.date \notin upserted
     /\ start[ret.date] = NoCells)
    => ret.value = <<>>

C5_Witness ==
    /\ ret.op = "get_day"
    /\ ret.date = T0107u
    /\ T0107u \notin upserted
    /\ HasRow(Table, T0107)
    /\ ret.value = <<>>

\* C6: deleting a date that has no row returns True and leaves the persisted
\* table as it was.
C6_DeleteAbsentNoChange ==
    (ret.op = "delete" /\ ~HasRow(TableBefore, ret.date))
    => (ret.value = TRUE /\ Table = TableBefore)

C6_Witness ==
    /\ ret.op = "delete"
    /\ ~HasRow(TableBefore, ret.date)
    /\ TableBefore # <<>>
    /\ Table = TableBefore

\* C7: deleting a date that has a row returns True; afterwards the date has
\* no record, every other date has the record it had, and an upsert on a
\* date without a row starts its accumulators from zero.
C7_DeletePresent ==
    /\ (ret.op = "delete" /\ HasRow(TableBefore, ret.date)) =>
           /\ ret.value = TRUE
           /\ get_day_data(Table, ret.date) = <<>>
           /\ Len(Table) = Len(TableBefore) - 1
           /\ \A e \in DateTexts \ {ret.date} :
                  get_day_data(Table, e) = get_day_data(TableBefore, e)
    /\ (ret.op = "upsert" /\ ret.value /\ ~HasRow(TableBefore, ret.date)) =>
           \A c \in AccumulatorColumns :
               RowOf(Table, ret.date)[c] =
                   IF FieldOf(c) \in DOMAIN ret.updates
                   THEN <<ret.updates[FieldOf(c)]>> ELSE <<0>>

C7_Witness ==
    /\ ret.op = "delete"
    /\ HasRow(TableBefore, ret.date)
    /\ Len(TableBefore) = 2
    /\ Len(Table) = 1
    /\ ~HasRow(Table, ret.date)

\* The rows of f whose date text parses to a day between the days of a and b.
RowsBetween(f, a, b) ==
    {i \in 1..Len(f) :
        /\ to_datetime(f[i].Date) # <<>>
        /\ to_datetime(a)[1] <= to_datetime(f[i].Date)[1]
        /\ to_datetime(f[i].Date)[1] <= to_datetime(b)[1]}

\* C8: get_date_range_data(a, b) returns exactly the stored rows whose date
\* lies between a and b, both included.
C8_RangeExact ==
    ret.op = "get_range" =>
        /\ Len(ret.value) = Cardinality(RowsBetween(Table, ret.start_date, ret.end_date))
        /\ {ret.value[i] : i \in 1..Len(ret.value)}
               = {Table[i] : i \in RowsBetween(Table, ret.start_date, ret.end_date)}

\* C9: the rows get_date_range_data returns are in ascending order of their
\* calendar dates.
C9_RangeCalendarOrder ==
    ret.op = "get_range" =>
        \A i, j \in 1..Len(ret.value) :
            i < j => to_datetime(ret.value[i].Date)[1] <= to_datetime(ret.value[j].Date)[1]

\* The weights a summary may subtract: that of a latest-dated and that of an
\* earliest-dated row among the rows with a weight.
WeightChanges(w) ==
    {w[l].Weight[1] - w[e].Weight[1] : <<l, e>> \in
        {p \in (1..Len(w)) \X (1..Len(w)) :
            /\ \A k \in 1..Len(w) : to_datetime(w[k].Date)[1] <= to_datetime(w[p[1]].Date)[1]
            /\ \A k \in 1..Len(w) : to_datetime(w[p[2]].Date)[1] <= to_datetime(w[k].Date)[1]}}

\* C10: weight_change is None when fewer than two rows of the window have a
\* weight, and otherwise the weight of the latest-dated such row minus the
\* weight of the earliest-dated one.
C10_WeightChange ==
    (ret.op = "summary" /\ ret.value # <<>>) =>
        LET w == dropna(get_recent_data(Table, ret.now, ret.days), {"Weight"})
        IN  IF Len(w) < 2 THEN ret.value[1].weight_change = <<>>
            ELSE /\ ret.value[1].weight_change # <<>>
                 /\ ret.value[1].weight_change[1] \in WeightChanges(w)

\* A goal was set for the row of d: found in the file at start, or supplied
\* by an upsert since.
GoalWasSet(d) ==
    \/ ~isna(start[d]["Calorie_Goal"])
    \/ supplied[d]["Calorie_Goal"] # <<>>

\* C11: the goal achievement rate of a summary is 100 times the number of
\* window rows with calories and a goal that was set and calories >= goal,
\* divided by the number of window rows with calories and a goal that was
\* set, and 0 when there is no such row; a row whose goal was never set
\* counts in neither.
C11_GoalAchievementRate ==
    (ret.op = "summary" /\ ret.value # <<>>) =>
        LET df == get_recent_data(Table, ret.now, ret.days)
            both == {i \in 1..Len(df) :
                        /\ ~isna(df[i].Calories)
                        /\ ~isna(df[i].Calorie_Goal)
                        /\ GoalWasSet(df[i].Date)}
            met == {i \in both : df[i].Calories[1] >= df[i].Calorie_Goal[1]}
            rate == ret.value[1].goal_achievement_rate
        IN  /\ rate.den > 0
            /\ IF both = {} THEN rate.num = 0
               ELSE rate.num * Cardinality(both) = 100 * Cardinality(met) * rate.den

\* The rows of df, by index, that have a value in column col.
DefinedIn(df, col) == {i \in 1..Len(df) : ~isna(df[i][col])}

RECURSIVE SumOver(_, _, _)
SumOver(df, col, rows) ==
    IF rows = {} THEN 0
    ELSE LET i == CHOOSE k \in rows : TRUE
         IN  df[i][col][1] + SumOver(df, col, rows \ {i})

SummaryMeans ==
    [Calories |-> "avg_calories", Protein |-> "avg_protein", Carbs |-> "avg_carbs",
     Fat |-> "avg_fat", Weight |-> "avg_weight"]

C15_RecentIsRange ==
    ret.op = "get_recent" =>
        /\ \A a, b \in Texts :
               (to_datetime(a) = <<ret.now - (ret.days - 1)>> /\ to_datetime(b) = <<ret.now>>)
               => ret.value = get_date_range_data(Table, a, b)
        /\ \A i \in 1..Len(ret.value) :
               /\ to_datetime(ret.value[i].Date) # <<>>
               /\ ret.now - (ret.days - 1) <= to_datetime(ret.value[i].Date)[1]
               /\ to_datetime(ret.value[i].Date)[1] <= ret.now

C15_Witness ==
    /\ ret.op = "get_recent"
    /\ Len(ret.value) = 1
    /\ to_datetime(ret.value[1].Date) = <<ret.now - 1>>
    /\ \E i \in 1..Len(Table) : to_datetime(Table[i].Date) = <<ret.now + 1>>

\* C16: every upsert the GUI issues carries a date text in the format
\* %Y-%m-%d and values inside the range of their field, so no accumulator
\* column of the persisted table holds a negative value.
C16_UIValidatesUpserts ==
    /\ ret.op = "upsert" =>
           /\ to_datetime(ret.date) # <<>>
           /\ \A f \in DOMAIN ret.updates : validate_numeric_input(ret.updates[f], f)
    /\ \A i \in 1..Len(Table) : \A c \in AccumulatorColumns :
           ~isna(Table[i][c]) => Table[i][c][1] >= 0

\* C14: no call on the store raises, construction included, and a call
\* during which a read, a write or a copy fails returns the safe value: the
\* empty table from load_data, False from update_day_data and
\* delete_day_data, None from get_day_data, get_summary_stats and
\* backup_data.
C14_NoExceptionSafeValues ==
    /\ ret.op = "init" => ~ret.raised
    /\ (ret.op = "get_all" /\ ~ret.readOK) => ret.value = <<>>
    /\ (ret.op \in {"upsert", "delete"} /\ ~(ret.readOK /\ ret.writeOK))
           => ret.value = FALSE
    /\ (ret.op \in {"get_day", "summary"} /\ ~ret.readOK) => ret.value = <<>>
    /\ (ret.op = "backup" /\ ~ret.copyOK) => ret.value = <<>>

ChartOps ==
    {"weight_chart", "calorie_chart", "macro_chart", "goal_comparison_chart",
     "weekly_summary_chart", "macro_pie_chart"}

\* C17: a step in which one of the six chart methods returns leaves the
\* backing file as it was.
C17_ChartsLeaveStoreAlone == [][ret'.op \in ChartOps => file' = file]_vars

C17_Witness ==
    /\ ret.op \in ChartOps
    /\ ret.value # <<>>
    /\ ops = MaxOps
    /\ Len(Table) >= 2

\* The frame of the window the chart in ret was drawn from.
WindowOfRet == get_recent_data(Table, ret.now, ret.days)

\* C18: the calorie chart is None exactly when no row of the window has
\* calories above 0; otherwise it has one bar for each such row and no other,
\* red (low) below 1200, orange (high) above 2500 and green (normal) from
\* 1200 to 2500, both included.
C18_CalorieChart ==
    ret.op = "calorie_chart" =>
        LET df == WindowOfRet
            rows == {i \in 1..Len(df) : ~isna(df[i].Calories) /\ df[i].Calories[1] > 0}
        IN  /\ (ret.value = <<>>) <=> (rows = {})
            /\ ret.value # <<>> =>
                   LET bars == ret.value[1].bars
                   IN  /\ Len(bars) = Cardinality(rows)
                       /\ {<<bars[i].date, bars[i].calories>> : i \in 1..Len(bars)}
                              = {<<to_datetime(df[i].Date)[1], df[i].Calories[1]>> : i \in rows}
                       /\ \A i \in 1..Len(bars) :
                              /\ (bars[i].color = "red") <=> (bars[i].calories < 1200)
                              /\ (bars[i].color = "orange") <=> (bars[i].calories > 2500)
                              /\ (bars[i].color = "green")
                                     <=> (1200 <= bars[i].calories /\ bars[i].calories <= 2500)

C18_Witness ==
    /\ ret.op = "calorie_chart"
    /\ ret.value # <<>>
    /\ Len(ret.value[1].bars) < Len(WindowOfRet)
    /\ \E i \in 1..Len(ret.value[1].bars) :
           ret.value[1].bars[i].calories = 1200 /\ ret.value[1].bars[i].color = "green"
    /\ \E i \in 1..Len(ret.value[1].bars) : ret.value[1].bars[i].color = "orange"

\* C19: the goal comparison chart is None when no row of the window has
\* calories and a goal both defined and above 0; otherwise it has one pair
\* of bars for each such row and no other, green (met) exactly when
\* calories >= goal, and its success rate is 100 times the number of met
\* rows divided by the number of pairs.
C19_GoalComparisonChart ==
    ret.op = "goal_comparison_chart" =>
        LET df == WindowOfRet
            rows == {i \in 1..Len(df) :
                        /\ ~isna(df[i].Calories) /\ df[i].Calories[1] > 0
                        /\ ~isna(df[i].Calorie_Goal) /\ df[i].Calorie_Goal[1] > 0}
        IN  /\ (ret.value = <<>>) <=> (rows = {})
            /\ ret.value # <<>> =>
                   LET bars == ret.value[1].bars
                       rate == ret.value[1].success_rate
                   IN  /\ Len(bars) = Cardinality(rows)
                       /\ {<<bars[i].date, bars[i].actual, bars[i].goal>> : i \in 1..Len(bars)}
                              = {<<to_datetime(df[i].Date)[1], df[i].Calories[1],
                                   df[i].Calorie_Goal[1]>> : i \in rows}
                       /\ \A i \in 1..Len(bars) :
                              (bars[i].color = "green") <=> (bars[i].actual >= bars[i].goal)
                       /\ rate.den > 0
                       /\ rate.num * Len(bars)
                              = 100 * Cardinality({i \in 1..Len(bars) : bars[i].color = "green"})
                                    * rate.den

C19_Witness ==
    /\ ret.op = "goal_comparison_chart"
    /\ ret.value # <<>>
    /\ Len(ret.value[1].bars) = 2
    /\ Len(WindowOfRet) = 3
    /\ \E i \in 1..2 : /\ ret.value[1].bars[i].actual = ret.value[1].bars[i].goal
                        /\ ret.value[1].bars[i].color = "green"
    /\ \E i \in 1..2 : ret.value[1].bars[i].color = "red"
    /\ ret.value[1].success_rate = [num |-> 100, den |-> 2]

\* The ISO week of a day: the ISO year (the year of the Thursday of the
\* week) and the number of the week in it.
IsoWeekOf(n) == <<year(n - weekday(n) + 3), isocalendar_week(n)>>

\* C20: the weekly summary is None when the window has no rows; otherwise
\* two rows of the window are aggregated in the same group exactly when
\* their dates lie in the same ISO week (same ISO year and week number),
\* also for a week that spans the turn of the year.
C20_WeeklyGroupsByIsoWeek ==
    ret.op = "weekly_summary_chart" =>
        LET df == WindowOfRet
            dates == {to_datetime(df[i].Date)[1] : i \in 1..Len(df)}
        IN  /\ df = <<>> => ret.value = <<>>
            /\ ret.value # <<>> =>
                   \A a, b \in dates :
                       (\E g \in ret.value[1] : a \in g.days /\ b \in g.days)
                           <=> (IsoWeekOf(a) = IsoWeekOf(b))

\* The sum of a column over the rows of df that have a value in it.
TotalOf(df, col) == SumOver(df, col, DefinedIn(df, col))

\* C21: the macro pie chart, when it is drawn, reports the sums of protein,
\* carbs and fat over all rows of the window; it is None when the three
\* totals add up to exactly zero, as they do when every row of the window
\* has 0 in the three columns, and it is drawn when they do not add up to
\* zero and none of them is negative.
C21_MacroPieTotals ==
    ret.op = "macro_pie_chart" =>
        \E df \in {WindowOfRet} :
            \E totals \in {[c \in {"Protein", "Carbs", "Fat"} |-> TotalOf(df, c)]} :
                /\ (totals.Protein + totals.Carbs + totals.Fat = 0) => ret.value = <<>>
                /\ ret.value # <<>> => ret.value[1] = totals
                /\ (/\ totals.Protein + totals.Carbs + totals.Fat # 0
                    /\ \A c \in DOMAIN totals : totals[c] >= 0)
                   => ret.value # <<>>

C21_Witness ==
    /\ ret.op = "macro_pie_chart"
    /\ ret.value # <<>>
    /\ Len(WindowOfRet) >= 2
    /\ Cardinality(DefinedIn(WindowOfRet, "Protein")) = 2
    /\ ret.value[1].Protein = 130

\* A window of rows that all hold 0 in the three columns gives no chart.
C21_WitnessAllZero ==
    /\ ret.op = "macro_pie_chart"
    /\ ret.value = <<>>
    /\ Len(WindowOfRet) >= 1
    /\ \A i \in 1..Len(WindowOfRet) : \A c \in {"Protein", "Carbs", "Fat"} :
           WindowOfRet[i][c] = <<0>>

\* A weight was recorded for the row of d: found in the file at start, or
\* supplied by an upsert since.
WeightWasSet(d) ==
    \/ ~isna(start[d]["Weight"])
    \/ supplied[d]["Weight"] # <<>>

\* C22: the weight chart is None when no row of the window has a recorded
\* weight, as after upserts in the window that never supplied a weight;
\* otherwise its series is exactly the rows with a recorded weight, in
\* ascending order of date, with a trend line exactly when there are at
\* least 3 of them.
C22_WeightChart ==
    ret.op = "weight_chart" =>
        \E df \in {WindowOfRet} :
            \E rows \in {{i \in 1..Len(df) : ~isna(df[i].Weight) /\ WeightWasSet(df[i].Date)}} :
                /\ (ret.value = <<>>) <=> (rows = {})
                /\ ret.value # <<>> =>
                       LET points == ret.value[1].points
                       IN  /\ Len(points) = Cardinality(rows)
                           /\ {<<points[i].date, points[i].weight>> : i \in 1..Len(points)}
                                  = {<<to_datetime(df[i].Date)[1], df[i].Weight[1]>> : i \in rows}
                           /\ \A i, j \in 1..Len(points) :
                                  i < j => points[i].date <= points[j].date
                           /\ ret.value[1].trend <=> (Len(points) >= 3)

\* The rows of f that are not rows of the date text d, in the order of f.
OtherRows(f, d) == SelectSeq(f, LAMBDA r : r.Date # d)

\* C23: an upsert that returns True changes only the row of its date: the
\* rows of every other date are the rows the persisted table had before the
\* call, with the same values, and none is added.
C23_UpsertFrame ==
    (ret.op = "upsert" /\ ret.value) =>
        /\ OtherRows(Table, ret.date) = OtherRows(TableBefore, ret.date)
        /\ Cardinality(RowsOf(Table, ret.date))
               = IF HasRow(TableBefore, ret.date)
                 THEN Cardinality(RowsOf(TableBefore, ret.date)) ELSE 1

C23_Witness ==
    /\ ret.op = "upsert"
    /\ ret.value
    /\ Len(TableBefore) = 2
    /\ HasRow(TableBefore, ret.date)
    /\ RowOf(Table, ret.date) # RowOf(TableBefore, ret.date)
    /\ \E i \in 1..Len(Table) : Table[i].Date # ret.date /\ isna(Table[i].Weight)

\* C24: an upsert or a delete whose read step fails does not write a table
\* built from the empty fallback over the backing file: every row of another
\* date that was persisted before the call is persisted after it.
C24_ReadFailureKeepsRecords ==
    (ret.op \in {"upsert", "delete"} /\ ~ret.readOK) =>
        \A i \in 1..Len(TableBefore) :
            TableBefore[i].Date # ret.date
                => \E j \in 1..Len(Table) : Table[j] = TableBefore[i]

\* C25: an upsert or a delete that returns False leaves the persisted table
\* as it was before the call.
C25_FailedCallNoEffect ==
    (ret.op \in {"upsert", "delete"} /\ ret.value = FALSE) => Table = TableBefore

\* C26: what a range query returns for the rows with valid dates does not
\* depend on the other stored rows: also when a row whose date text is no
\* calendar date is stored, get_date_range_data(a, b), and get_recent_data
\* through it, returns every row whose date lies between a and b.
C26_RangeIgnoresBadDates ==
    /\ ret.op = "get_range" =>
           \A i \in RowsBetween(Table, ret.start_date, ret.end_date) :
               \E j \in 1..Len(ret.value) : ret.value[j] = Table[i]
    /\ ret.op = "get_recent" =>
           \A i \in RowsBetween(Table, strftime(ret.now - (ret.days - 1)), strftime(ret.now)) :
               \E j \in 1..Len(ret.value) : ret.value[j] = Table[i]

====
